---- MODULE Spec2Model ----
(***************************************************************************)
(* A model of osgEarthFeatures/FeatureGridder.cpp: the GriddingPolicy      *)
(* value object (construction from a Config, serialisation to a Config)    *)
(* and the FeatureGridder (grid dimensions, cell bounds, culling a feature *)
(* list to a cell by centroid or by cropping).                             *)
(*                                                                         *)
(* Doubles are modelled by integers with exact arithmetic, so rounding of  *)
(* the floating-point division and products is outside the model.  `int`   *)
(* keeps its 32-bit width: IntMul wraps as the two's-complement multiply   *)
(* does.  Centers of bounding boxes are kept doubled (2*x, 2*y) so that a  *)
(* half-integer center stays an integer.                                   *)
(***************************************************************************)
EXTENDS Integers, Sequences, FiniteSets, TLC

VARIABLES
    haveGeos,   \* OSGEARTH_HAVE_GEOS: whether the build has the overlay engine
    extent,     \* the caller's input Bounds
    policy,     \* the caller's GriddingPolicy
    features,   \* the caller's master FeatureList
    gridder,    \* the FeatureGridder object (NoGridder before construction)
    ret,        \* the last call on the gridder: its arguments and what it returned
    conf,       \* the Config last returned by GriddingPolicy::toConfig (or loaded)
    restored    \* the GriddingPolicy last constructed from conf

vars == <<haveGeos, extent, policy, features, gridder, ret, conf, restored>>

----------------------------------------------------------------------------
(* Bounds of the model *)

MaxCoord == 4
MaxCellSize == 2
MaxFeatures == 2
MaxIndex == 4
WideCoord == 65536

----------------------------------------------------------------------------
(* optional<T>: a value, its default, and whether it was set *)

Unset(d) == [set |-> FALSE, value |-> d, defaultValue |-> d]

Assign(o, v) == [o EXCEPT !.set = TRUE, !.value = v]

----------------------------------------------------------------------------
(* GriddingPolicy *)

\* stands for the largest double: above every coordinate and sum of the model
DBL_MAX == 1073741824

CULL_BY_CENTROID == "CULL_BY_CENTROID"
CULL_BY_CROPPING == "CULL_BY_CROPPING"

PROP_CELL_SIZE == "cell_size"
PROP_CULLING_TECHNIQUE == "culling_technique"
PROP_SPATIALIZE_GROUPS == "spatialize_groups"
PROP_CLUSTER_CULLING == "cluster_culling"

ConfKeys ==
    {PROP_CELL_SIZE, PROP_CULLING_TECHNIQUE, PROP_SPATIALIZE_GROUPS, PROP_CLUSTER_CULLING}

\* GriddingPolicy::GriddingPolicy()
DefaultPolicy ==
    [ cellSize         |-> Unset(DBL_MAX),
      cullingTechnique |-> Unset(CULL_BY_CENTROID),
      spatializeGroups |-> Unset(TRUE),
      clusterCulling   |-> Unset(FALSE) ]

(* Config: a map from keys to text; the empty text is "no value".  Numbers *)
(* and booleans are written as text and parsed back.                       *)
CellSizes == (-1) .. MaxCellSize

EmptyConfig == [k \in ConfKeys |-> ""]

ConfHasValue(c, key) == c[key] # ""

DoubleToText(d) == ToString(d)

\* Config::value<double>(key, fallback): the number the text spells, else fallback
TextToDouble(s, fallback) ==
    IF \E d \in CellSizes \cup {DBL_MAX} : DoubleToText(d) = s
    THEN CHOOSE d \in CellSizes \cup {DBL_MAX} : DoubleToText(d) = s
    ELSE fallback

BoolToText(b) == IF b THEN "true" ELSE "false"

TextToBool(s, fallback) ==
    IF s = "true" THEN TRUE ELSE IF s = "false" THEN FALSE ELSE fallback

\* Config::addOptional(key, opt): written only when opt is set
ConfAddOptional(c, key, opt, text) ==
    IF opt.set THEN [c EXCEPT ![key] = text] ELSE c

\* Config::getOptional<bool>(key, output)
ConfGetOptionalBool(c, key, output) ==
    IF ConfHasValue(c, key)
    THEN Assign(output, TextToBool(c[key], output.defaultValue))
    ELSE output

\* GriddingPolicy::GriddingPolicy(const Config&)
PolicyFromConfig(c) ==
    LET d == DefaultPolicy
        cellSize ==
            IF ConfHasValue(c, PROP_CELL_SIZE)
            THEN Assign(d.cellSize, TextToDouble(c[PROP_CELL_SIZE], d.cellSize.defaultValue))
            ELSE d.cellSize
        cullingTechnique ==
            IF c[PROP_CULLING_TECHNIQUE] = "crop"
            THEN Assign(d.cullingTechnique, CULL_BY_CROPPING)
            ELSE IF c[PROP_CULLING_TECHNIQUE] = "centroid"
                 THEN Assign(d.cullingTechnique, CULL_BY_CENTROID)
                 ELSE d.cullingTechnique
    IN [ cellSize         |-> cellSize,
         cullingTechnique |-> cullingTechnique,
         spatializeGroups |-> ConfGetOptionalBool(c, PROP_SPATIALIZE_GROUPS, d.spatializeGroups),
         clusterCulling   |-> ConfGetOptionalBool(c, PROP_CLUSTER_CULLING, d.clusterCulling) ]

\* toConfig writing the culling technique whether or not it is set
PolicyToConfigAlwaysTechnique(p) ==
    LET c1 == ConfAddOptional(EmptyConfig, PROP_CELL_SIZE, p.cellSize,
                              DoubleToText(p.cellSize.value))
        c2 == IF p.cullingTechnique.value = CULL_BY_CROPPING
              THEN [c1 EXCEPT ![PROP_CULLING_TECHNIQUE] = "crop"]
              ELSE [c1 EXCEPT ![PROP_CULLING_TECHNIQUE] = "centroid"]
        c3 == ConfAddOptional(c2, PROP_SPATIALIZE_GROUPS, p.spatializeGroups,
                              BoolToText(p.spatializeGroups.value))
    IN ConfAddOptional(c3, PROP_CLUSTER_CULLING, p.clusterCulling,
                       BoolToText(p.clusterCulling.value))

\* GriddingPolicy::toConfig
PolicyToConfig(p) ==
    LET c1 == ConfAddOptional(EmptyConfig, PROP_CELL_SIZE, p.cellSize,
                              DoubleToText(p.cellSize.value))
        c2 == IF p.cullingTechnique.set
              THEN IF p.cullingTechnique.value = CULL_BY_CROPPING
                   THEN [c1 EXCEPT ![PROP_CULLING_TECHNIQUE] = "crop"]
                   ELSE IF p.cullingTechnique.value = CULL_BY_CENTROID
                        THEN [c1 EXCEPT ![PROP_CULLING_TECHNIQUE] = "centroid"]
                        ELSE c1
              ELSE c1
        c3 == ConfAddOptional(c2, PROP_SPATIALIZE_GROUPS, p.spatializeGroups,
                              BoolToText(p.spatializeGroups.value))
    IN ConfAddOptional(c3, PROP_CLUSTER_CULLING, p.clusterCulling,
                       BoolToText(p.clusterCulling.value))

----------------------------------------------------------------------------
(* 32-bit int *)

\* a * b in int: the low 32 bits of the product, read as two's complement
\* (0 <= a, b < 2^31); computed by 16- and 8-bit limbs
IntMul(a, b) ==
    LET a0 == a % 65536
        a1 == a \div 65536
        b0 == b % 65536
        b1 == b \div 65536
        p0 == (a0 % 256) * b0
        p1 == (a0 \div 256) * b0
        low == p0 + (p1 % 256) * 256
        lo16 == low % 65536
        carry == (low \div 65536) + (p1 \div 256)
        hi16 == (carry + ((a1 * b0) % 65536) + ((a0 * b1) % 65536)) % 65536
    IN IF hi16 >= 32768 THEN (hi16 - 65536) * 65536 + lo16
                        ELSE hi16 * 65536 + lo16

\* osg::clampAbove(v, minimum)
ClampAbove(v, minimum) == IF v < minimum THEN minimum ELSE v

\* osg::clampBelow(v, maximum)
ClampBelow(v, maximum) == IF v > maximum THEN maximum ELSE v

\* (int)::ceil(a / b) for b > 0
CeilDiv(a, b) == -((-a) \div b)

----------------------------------------------------------------------------
(* Bounds *)

MakeBounds(xmin, ymin, xmax, ymax) ==
    [xMin |-> xmin, yMin |-> ymin, xMax |-> xmax, yMax |-> ymax]

\* Bounds(): what `Bounds b;` holds before getCellBounds writes it
EmptyBounds == MakeBounds(0, 0, 0, 0)

Width(b) == b.xMax - b.xMin

Height(b) == b.yMax - b.yMin

\* Bounds::contains(x, y), with the point given doubled
Contains(b, px2, py2) ==
    /\ 2 * b.xMin <= px2 /\ px2 <= 2 * b.xMax
    /\ 2 * b.yMin <= py2 /\ py2 <= 2 * b.yMax

----------------------------------------------------------------------------
(* FeatureGridder *)

NoGridder == [made |-> FALSE]

\* the constructor without the fallback to CULL_BY_CENTROID
FeatureGridderNoFallback(inputBounds, p, geos) ==
    LET sized == p.cellSize.set /\ p.cellSize.value > 0
        cellsX == IF sized THEN CeilDiv(Width(inputBounds), p.cellSize.value) ELSE 1
        cellsY == IF sized THEN CeilDiv(Height(inputBounds), p.cellSize.value) ELSE 1
    IN [ made        |-> TRUE,
         inputBounds |-> inputBounds,
         policy      |-> p,
         cellsX      |-> ClampAbove(cellsX, 1),
         cellsY      |-> ClampAbove(cellsY, 1) ]

\* FeatureGridder::FeatureGridder(inputBounds, policy)
FeatureGridder(inputBounds, p, geos) ==
    LET sized == p.cellSize.set /\ p.cellSize.value > 0
        cellsX == IF sized THEN CeilDiv(Width(inputBounds), p.cellSize.value) ELSE 1
        cellsY == IF sized THEN CeilDiv(Height(inputBounds), p.cellSize.value) ELSE 1
        stored ==
            IF ~geos /\ p.cullingTechnique.set
                     /\ p.cullingTechnique.value = CULL_BY_CROPPING
            THEN [p EXCEPT !.cullingTechnique = Assign(@, CULL_BY_CENTROID)]
            ELSE p
    IN [ made        |-> TRUE,
         inputBounds |-> inputBounds,
         policy      |-> stored,
         cellsX      |-> ClampAbove(cellsX, 1),
         cellsY      |-> ClampAbove(cellsY, 1) ]

\* FeatureGridder::getNumCells
GetNumCells(g) == IntMul(g.cellsX, g.cellsY)

\* getCellBounds without the check that i is not negative
GetCellBoundsNoLowerCheck(g, i, output) ==
    IF i < IntMul(g.cellsX, g.cellsY)
    THEN LET x == i % g.cellsX
             y == i \div g.cellsX
             cs == g.policy.cellSize.value
             xmin == g.inputBounds.xMin + cs * x
             ymin == g.inputBounds.yMin + cs * y
             xmax == ClampBelow(g.inputBounds.xMin + cs * (x + 1), g.inputBounds.xMax)
             ymax == ClampBelow(g.inputBounds.yMin + cs * (y + 1), g.inputBounds.yMax)
         IN [ok |-> TRUE, output |-> MakeBounds(xmin, ymin, xmax, ymax)]
    ELSE [ok |-> FALSE, output |-> output]

\* getCellBounds with every cell starting at the extent's origin
GetCellBoundsFromOrigin(g, i, output) ==
    IF i >= 0 /\ i < IntMul(g.cellsX, g.cellsY)
    THEN LET x == i % g.cellsX
             y == i \div g.cellsX
             cs == g.policy.cellSize.value
             xmax == ClampBelow(g.inputBounds.xMin + cs * (x + 1), g.inputBounds.xMax)
             ymax == ClampBelow(g.inputBounds.yMin + cs * (y + 1), g.inputBounds.yMax)
         IN [ok |-> TRUE,
             output |-> MakeBounds(g.inputBounds.xMin, g.inputBounds.yMin, xmax, ymax)]
    ELSE [ok |-> FALSE, output |-> output]

\* FeatureGridder::getCellBounds(i, output): [ok, output]
GetCellBounds(g, i, output) ==
    IF i >= 0 /\ i < IntMul(g.cellsX, g.cellsY)
    THEN LET x == i % g.cellsX
             y == i \div g.cellsX
             cs == g.policy.cellSize.value
             xmin == g.inputBounds.xMin + cs * x
             ymin == g.inputBounds.yMin + cs * y
             xmax == ClampBelow(g.inputBounds.xMin + cs * (x + 1), g.inputBounds.xMax)
             ymax == ClampBelow(g.inputBounds.yMin + cs * (y + 1), g.inputBounds.yMax)
         IN [ok |-> TRUE, output |-> MakeBounds(xmin, ymin, xmax, ymax)]
    ELSE [ok |-> FALSE, output |-> output]

----------------------------------------------------------------------------
(* Features and geometries.  A Geometry is modelled by its bounding box    *)
(* and by how the overlay engine treats it (geos): "ok", "noimport"        *)
(* (importGeometry returns null), "throw" (overlayOp throws), "null"       *)
(* (overlayOp returns null), "badexport" (exportGeometry returns null or   *)
(* an invalid geometry).  A feature is its id and its geometry slot.       *)

NullGeometry == [null |-> TRUE, x0 |-> 0, y0 |-> 0, x1 |-> 0, y1 |-> 0, geos |-> "ok"]

Box(x0, y0, x1, y1, geos) ==
    [null |-> FALSE, x0 |-> x0, y0 |-> y0, x1 |-> x1, y1 |-> y1, geos |-> geos]

\* Geometry::getBounds().center(), doubled
CenterX2(geom) == geom.x0 + geom.x1

CenterY2(geom) == geom.y0 + geom.y1

\* features.erase(f_i): the list without its f_i-th element
Erase(list, f_i) ==
    [k \in 1 .. (Len(list) - 1) |-> IF k < f_i THEN list[k] ELSE list[k + 1]]

\* feature->setGeometry(geom) on the f_i-th element
SetGeometry(list, f_i, geom) == [list EXCEPT ![f_i].geom = geom]

(* The overlay engine: the intersection of a geometry with the cell        *)
(* rectangle, exported back.  The result is the intersection of the boxes; *)
(* an empty intersection exports as an invalid geometry.                   *)
Clip(geom, b) ==
    Box(IF geom.x0 > b.xMin THEN geom.x0 ELSE b.xMin,
        IF geom.y0 > b.yMin THEN geom.y0 ELSE b.yMin,
        IF geom.x1 < b.xMax THEN geom.x1 ELSE b.xMax,
        IF geom.y1 < b.yMax THEN geom.y1 ELSE b.yMax,
        "ok")

\* Geometry::isValid of an exported geometry
IsValid(geom) == ~geom.null /\ geom.x0 <= geom.x1 /\ geom.y0 <= geom.y1

\* handles of the overlay-engine geometries a call creates
CropHandle == <<"crop", 0>>

InHandle(feature) == <<"in", feature.fid>>

OutHandle(feature) == <<"out", feature.fid>>

\* the centroid loop advancing the iterator after an erase as well
RECURSIVE CentroidLoopSkipAfterErase(_, _, _)
CentroidLoopSkipAfterErase(list, f_i, b) ==
    IF f_i > Len(list) THEN list
    ELSE LET featureGeom == list[f_i].geom
             keepFeature ==
                 /\ ~featureGeom.null
                 /\ Contains(b, CenterX2(featureGeom), CenterY2(featureGeom))
         IN IF keepFeature
            THEN CentroidLoopSkipAfterErase(list, f_i + 1, b)
            ELSE CentroidLoopSkipAfterErase(Erase(list, f_i), f_i + 1, b)

\* the CULL_BY_CENTROID loop of cullFeatureListToCell, from iterator f_i on
RECURSIVE CentroidLoop(_, _, _)
CentroidLoop(list, f_i, b) ==
    IF f_i > Len(list) THEN list
    ELSE LET featureGeom == list[f_i].geom
             keepFeature ==
                 /\ ~featureGeom.null
                 /\ Contains(b, CenterX2(featureGeom), CenterY2(featureGeom))
         IN IF keepFeature
            THEN CentroidLoop(list, f_i + 1, b)
            ELSE CentroidLoop(Erase(list, f_i), f_i, b)

\* one pass of the CULL_BY_CROPPING loop body on the f_i-th feature:
\* [keep, geom, created, destroyed]
CropStep(feature, b) ==
    LET featureGeom == feature.geom
        none == [keep |-> FALSE, geom |-> featureGeom, created |-> {}, destroyed |-> {}]
    IN IF featureGeom.null THEN none
       ELSE IF featureGeom.geos = "noimport" THEN none
       ELSE IF featureGeom.geos \in {"throw", "null"}
            THEN [none EXCEPT !.created = {InHandle(feature)}]
       ELSE LET exported == IF featureGeom.geos = "badexport"
                            THEN NullGeometry
                            ELSE Clip(featureGeom, b)
            IN [ keep      |-> IsValid(exported),
                 geom      |-> IF IsValid(exported) THEN exported ELSE featureGeom,
                 created   |-> {InHandle(feature), OutHandle(feature)},
                 destroyed |-> {OutHandle(feature)} ]

\* the cropping loop giving up on the rest of the list when an overlay fails
RECURSIVE CropLoopAbortOnFailure(_, _, _, _, _)
CropLoopAbortOnFailure(list, f_i, b, created, destroyed) ==
    IF f_i > Len(list)
    THEN [list |-> list, created |-> created, destroyed |-> destroyed]
    ELSE LET s == CropStep(list[f_i], b)
         IN IF s.keep
            THEN CropLoopAbortOnFailure(SetGeometry(list, f_i, s.geom), f_i + 1, b,
                                        created \cup s.created, destroyed \cup s.destroyed)
            ELSE IF list[f_i].geom.geos \in {"throw", "null"}
                 THEN [ list |-> Erase(list, f_i), created |-> created \cup s.created,
                        destroyed |-> destroyed \cup s.destroyed ]
                 ELSE CropLoopAbortOnFailure(Erase(list, f_i), f_i, b,
                                             created \cup s.created,
                                             destroyed \cup s.destroyed)

\* the CULL_BY_CROPPING loop, from iterator f_i on: [list, created, destroyed]
RECURSIVE CropLoop(_, _, _, _, _)
CropLoop(list, f_i, b, created, destroyed) ==
    IF f_i > Len(list)
    THEN [list |-> list, created |-> created, destroyed |-> destroyed]
    ELSE LET s == CropStep(list[f_i], b)
         IN IF s.keep
            THEN CropLoop(SetGeometry(list, f_i, s.geom), f_i + 1, b,
                          created \cup s.created, destroyed \cup s.destroyed)
            ELSE CropLoop(Erase(list, f_i), f_i, b,
                          created \cup s.created, destroyed \cup s.destroyed)

\* FeatureGridder::cullFeatureListToCell(i, features):
\* [success, features, created, destroyed]
CullFeatureListToCell(g, i, list, geos) ==
    LET cell == GetCellBounds(g, i, EmptyBounds)
        b == cell.output
        same == [success |-> TRUE, features |-> list, created |-> {}, destroyed |-> {}]
    IN IF ~cell.ok THEN same
       ELSE IF g.policy.cullingTechnique.value = CULL_BY_CENTROID
            THEN [same EXCEPT !.features = CentroidLoop(list, 1, b)]
       ELSE IF ~geos THEN same
       ELSE LET r == CropLoop(list, 1, b, {CropHandle}, {})
            IN [ success   |-> TRUE,
                 features  |-> r.list,
                 created   |-> r.created,
                 destroyed |-> r.destroyed \cup {CropHandle} ]

----------------------------------------------------------------------------
(* Inputs *)

\* the texts a Config may hold for each key, absent and malformed included
AllConfigs ==
    { [k \in ConfKeys |->
         CASE k = PROP_CELL_SIZE         -> cs
           [] k = PROP_CULLING_TECHNIQUE -> ct
           [] k = PROP_SPATIALIZE_GROUPS -> sg
           [] k = PROP_CLUSTER_CULLING   -> cc ] :
      cs \in {"", "abc"} \cup {DoubleToText(d) : d \in CellSizes},
      ct \in {"", "crop", "centroid", "bogus"},
      sg \in {"", "true", "false"},
      cc \in {"", "true", "false"} }

\* the policies the gridder is built from: every cell size, set or not, and
\* every culling technique, set or not
GridPolicies ==
    { PolicyFromConfig(c) :
        c \in { k \in AllConfigs : /\ k[PROP_CELL_SIZE] # "abc"
                                   /\ k[PROP_CULLING_TECHNIQUE] # "bogus"
                                   /\ k[PROP_SPATIALIZE_GROUPS] = ""
                                   /\ k[PROP_CLUSTER_CULLING] = "" } }

ExtentOf(xs, ys) == MakeBounds(xs[1], ys[1], xs[2], ys[2])

\* [lo, hi] with lo <= hi
Intervals == { s \in (0 .. 1) \X (0 .. MaxCoord) : s[1] <= s[2] }

\* intervals wide enough for the cell count to leave the range of int
WideIntervals == Intervals \cup { <<lo, WideCoord>> : lo \in 0 .. 1 }

GridExtents == { ExtentOf(xs, ys) : xs \in Intervals, ys \in Intervals }

WideExtents == { ExtentOf(xs, ys) : xs \in WideIntervals, ys \in WideIntervals }

CullExtents ==
    { ExtentOf(xs, ys) : xs \in {<<0, MaxCoord>>, <<1, MaxCoord>>},
                         ys \in {<<0, MaxCoord>>, <<0, MaxCoord - 1>>} }
    \cup {MakeBounds(0, 0, WideCoord, WideCoord)}

CropExtents ==
    { MakeBounds(0, 0, MaxCoord, MaxCoord), MakeBounds(1, 0, MaxCoord, MaxCoord - 1) }

GeosOutcomes == {"ok", "noimport", "throw", "null", "badexport"}

GridPool == {Box(0, 0, 1, 1, "ok")}

CullPool ==
    { NullGeometry,
      Box(2, 1, 2, 1, "ok"), Box(2, 2, 4, 4, "ok"),
      Box(2, 2, 2, 2, "ok"), Box(3, 0, 4, 1, "ok") }

CropPool ==
    {NullGeometry} \cup { Box(0, 0, 3, 1, o) : o \in GeosOutcomes }
                   \cup { Box(3, 3, 3, 3, o) : o \in GeosOutcomes }

\* the feature lists of at most n features with geometries from pool
FeatureLists(pool, n) ==
    { [k \in DOMAIN gs |-> [fid |-> k, geom |-> gs[k]]] :
        gs \in UNION { [1 .. m -> pool] : m \in 0 .. n } }

Indices == ((-1) .. MaxIndex) \cup {WideCoord}

NoCall == [op |-> "none"]

NoConf == [made |-> FALSE]

NoPolicy == [made |-> FALSE]

----------------------------------------------------------------------------
(* Initial states: the caller holds an extent, a policy and a feature list *)

InitWith(geos, extents, policies, lists) ==
    /\ haveGeos \in geos
    /\ extent \in extents
    /\ policy \in policies
    /\ features \in lists
    /\ gridder = NoGridder
    /\ ret = NoCall
    /\ conf = NoConf
    /\ restored = NoPolicy

Init == InitWith(BOOLEAN, GridExtents, GridPolicies, FeatureLists(GridPool, 1))

InitWide == InitWith(BOOLEAN, WideExtents, GridPolicies, FeatureLists(GridPool, 1))

InitCull == InitWith(BOOLEAN, CullExtents, GridPolicies, FeatureLists(CullPool, MaxFeatures))

InitCrop ==
    InitWith({TRUE}, CropExtents,
             { p \in GridPolicies : p.cullingTechnique.value = CULL_BY_CROPPING },
             FeatureLists(CropPool, MaxFeatures))

InitPolicy ==
    InitWith({TRUE}, {MakeBounds(0, 0, MaxCoord, MaxCoord)}, {DefaultPolicy}, {<<>>})

----------------------------------------------------------------------------
(* Actions on the gridder *)

Construct ==
    /\ ~gridder.made
    /\ gridder' = FeatureGridder(extent, policy, haveGeos)
    /\ UNCHANGED <<haveGeos, extent, policy, features, ret, conf, restored>>

CallGetNumCells ==
    /\ gridder.made
    /\ ret' = [op |-> "getNumCells", value |-> GetNumCells(gridder)]
    /\ UNCHANGED <<haveGeos, extent, policy, features, gridder, conf, restored>>

CallGetCellBounds ==
    /\ gridder.made
    /\ \E i \in Indices :
         LET r == GetCellBounds(gridder, i, EmptyBounds)
         IN ret' = [op |-> "getCellBounds", i |-> i, ok |-> r.ok, output |-> r.output]
    /\ UNCHANGED <<haveGeos, extent, policy, features, gridder, conf, restored>>

\* one call of cullFeatureListToCell on a copy of the feature list
CallCull ==
    /\ gridder.made
    /\ \E i \in Indices :
         LET r == CullFeatureListToCell(gridder, i, features, haveGeos)
         IN ret' = [ op |-> "cull", i |-> i, in |-> features,
                     success |-> r.success, out |-> r.features,
                     created |-> r.created, destroyed |-> r.destroyed ]
    /\ UNCHANGED <<haveGeos, extent, policy, features, gridder, conf, restored>>

\* the caller's loop: getNumCells, then cullFeatureListToCell once per cell
\* index, each on its own copy of the feature list (the first MaxIndex + 1 cells)
CullAllCells ==
    /\ gridder.made
    /\ LET n == ClampBelow(ClampAbove(GetNumCells(gridder), 0), MaxIndex + 1)
       IN ret' = [ op |-> "cullAll", in |-> features, n |-> n,
                   outs |-> [ k \in 1 .. n |->
                       CullFeatureListToCell(gridder, k - 1, features, haveGeos).features ] ]
    /\ UNCHANGED <<haveGeos, extent, policy, features, gridder, conf, restored>>

Next ==
    \/ Construct
    \/ CallGetNumCells
    \/ CallGetCellBounds
    \/ CallCull
    \/ CullAllCells

Spec == Init /\ [][Next]_vars

SpecWide == InitWide /\ [][Next]_vars

SpecCull == InitCull /\ [][Next]_vars

SpecCrop == InitCrop /\ [][Next]_vars

----------------------------------------------------------------------------
(* Actions on the policy *)

\* policy = GriddingPolicy(c)
LoadConfig ==
    /\ \E c \in AllConfigs : policy' = PolicyFromConfig(c)
    /\ conf' = NoConf
    /\ restored' = NoPolicy
    /\ UNCHANGED <<haveGeos, extent, features, gridder, ret>>

\* conf = policy.toConfig()
ToConfig ==
    /\ conf' = [made |-> TRUE, c |-> PolicyToConfig(policy)]
    /\ restored' = NoPolicy
    /\ UNCHANGED <<haveGeos, extent, policy, features, gridder, ret>>

\* restored = GriddingPolicy(conf)
FromConfig ==
    /\ conf.made
    /\ restored' = [made |-> TRUE, p |-> PolicyFromConfig(conf.c)]
    /\ UNCHANGED <<haveGeos, extent, policy, features, gridder, ret, conf>>

NextPolicy ==
    \/ LoadConfig
    \/ ToConfig
    \/ FromConfig

SpecPolicy == InitPolicy /\ [][NextPolicy]_vars

----------------------------------------------------------------------------
(* Vocabulary of the claims *)

Sized == policy.cellSize.set /\ policy.cellSize.value > 0

Technique == gridder.policy.cullingTechnique.value

ValidIndex(i) == i >= 0 /\ i < GetNumCells(gridder)

CellOf(i) == GetCellBounds(gridder, i, EmptyBounds).output

Inside(outer, b) ==
    /\ outer.xMin <= b.xMin /\ b.xMin <= b.xMax /\ b.xMax <= outer.xMax
    /\ outer.yMin <= b.yMin /\ b.yMin <= b.yMax /\ b.yMax <= outer.yMax

\* the points of the extent, on the half-unit lattice, doubled
PointsOf(b) == ((2 * b.xMin) .. (2 * b.xMax)) \X ((2 * b.yMin) .. (2 * b.yMax))

InclusiveIn(b, px2, py2) ==
    /\ 2 * b.xMin <= px2 /\ px2 <= 2 * b.xMax
    /\ 2 * b.yMin <= py2 /\ py2 <= 2 * b.yMax

StrictlyIn(b, px2, py2) ==
    /\ 2 * b.xMin < px2 /\ px2 < 2 * b.xMax
    /\ 2 * b.yMin < py2 /\ py2 < 2 * b.yMax

HasFeature(list, fid) == \E k \in 1 .. Len(list) : list[k].fid = fid

FeaturesOf(list) == { list[k] : k \in 1 .. Len(list) }

IsCeilOrOne(n, w, c) == IF w = 0 THEN n = 1 ELSE ((n - 1) * c < w /\ w <= n * c)

IsProduct(v, a, b) == v % a = 0 /\ v \div a = b

KeptByCentroid(f, b) ==
    ~f.geom.null /\ InclusiveIn(b, CenterX2(f.geom), CenterY2(f.geom))

CentroidFilter(list, b) ==
    LET Test(f) == KeptByCentroid(f, b) IN SelectSeq(list, Test)

OverlayFails(f) == ~f.geom.null /\ f.geom.geos \in {"throw", "null"}

ClippedValid(f, b) ==
    ~f.geom.null /\ f.geom.geos = "ok" /\ IsValid(Clip(f.geom, b))

Clipped(list, b) ==
    LET Test(f) == ClippedValid(f, b)
        kept == SelectSeq(list, Test)
    IN [k \in 1 .. Len(kept) |-> [kept[k] EXCEPT !.geom = Clip(kept[k].geom, b)]]

----------------------------------------------------------------------------
(* The claims *)

(* C1: with cellSize unset or set to a value <= 0 the gridder has exactly  *)
(* one cell, and getCellBounds(0) returns the full input extent.           *)
C1_SingleCellIsExtent ==
    (gridder.made /\ ~Sized) =>
        /\ ret.op = "getNumCells" => ret.value = 1
        /\ (ret.op = "getCellBounds" /\ ret.i = 0) => (ret.ok /\ ret.output = extent)

(* C2: every valid cell's rectangle lies within the input extent, and the  *)
(* rectangles of all valid cells together cover the extent.                *)
C2_CellsTileExtent ==
    gridder.made =>
        /\ (ret.op = "getCellBounds" /\ ret.ok) => Inside(extent, ret.output)
        /\ \A pt \in PointsOf(extent) :
             \E i \in 0 .. (GetNumCells(gridder) - 1) :
                 InclusiveIn(CellOf(i), pt[1], pt[2])

(* C3: with cellSize > 0, cellsX = ceil(width / cellSize) and              *)
(* cellsY = ceil(height / cellSize), each at least 1, and getNumCells()    *)
(* returns cellsX * cellsY.                                                *)
C3_GridDimensions ==
    (gridder.made /\ Sized) =>
        /\ IsCeilOrOne(gridder.cellsX, Width(extent), policy.cellSize.value)
        /\ IsCeilOrOne(gridder.cellsY, Height(extent), policy.cellSize.value)
        /\ ret.op = "getNumCells" => IsProduct(ret.value, gridder.cellsX, gridder.cellsY)

(* C4: under CULL_BY_CENTROID, with cullFeatureListToCell run once per     *)
(* cell on copies of one list, a feature whose bounding-box center lies    *)
(* strictly inside cell i is in cell i's output and in no other cell's.    *)
C4_StrictCenterInOneCell ==
    (ret.op = "cullAll" /\ Technique = CULL_BY_CENTROID) =>
        \A i \in 1 .. ret.n : \A f \in FeaturesOf(ret.in) :
            (~f.geom.null /\ StrictlyIn(CellOf(i - 1), CenterX2(f.geom), CenterY2(f.geom)))
            => /\ HasFeature(ret.outs[i], f.fid)
               /\ \A j \in (1 .. ret.n) \ {i} : ~HasFeature(ret.outs[j], f.fid)

\* a 2 x 2 grid whose cell 3 alone keeps a feature centered strictly inside it
C4_Witness ==
    /\ ret.op = "cullAll" /\ Technique = CULL_BY_CENTROID /\ ret.n = 4
    /\ \E f \in FeaturesOf(ret.in) :
         /\ StrictlyIn(CellOf(3), CenterX2(f.geom), CenterY2(f.geom))
         /\ HasFeature(ret.outs[4], f.fid)
         /\ \A j \in 1 .. 3 : ~HasFeature(ret.outs[j], f.fid)

(* C5: for a cell index outside [0, getNumCells()), whatever the culling   *)
(* technique, cullFeatureListToCell leaves the list as it was (no feature  *)
(* removed, no geometry changed, same order) and returns true.             *)
C5_InvalidIndexIsNoOp ==
    (ret.op = "cull" /\ ~ValidIndex(ret.i)) => (ret.out = ret.in /\ ret.success)

\* an index one past the last cell, under cropping, on a non-empty list
C5_Witness ==
    /\ ret.op = "cull" /\ ret.i = GetNumCells(gridder) /\ ret.i > 0
    /\ Technique = CULL_BY_CROPPING /\ haveGeos
    /\ Len(ret.in) = MaxFeatures /\ ret.out = ret.in /\ ret.success

(* C6: without the overlay engine, a gridder built from a CULL_BY_CROPPING *)
(* policy stores CULL_BY_CENTROID and its culls apply the centroid test;   *)
(* otherwise the policy is stored unchanged.                               *)
C6_FallbackToCentroid ==
    gridder.made =>
        IF ~haveGeos /\ policy.cullingTechnique.value = CULL_BY_CROPPING
        THEN /\ Technique = CULL_BY_CENTROID
             /\ gridder.policy.cellSize = policy.cellSize
             /\ gridder.policy.spatializeGroups = policy.spatializeGroups
             /\ gridder.policy.clusterCulling = policy.clusterCulling
             /\ (ret.op = "cull" /\ ValidIndex(ret.i)) =>
                    ret.out = CentroidFilter(ret.in, CellOf(ret.i))
        ELSE gridder.policy = policy

\* a cull on a downgraded gridder that keeps one feature and drops another
C6_Witness ==
    /\ gridder.made /\ ~haveGeos /\ policy.cullingTechnique.value = CULL_BY_CROPPING
    /\ ret.op = "cull" /\ ValidIndex(ret.i)
    /\ Len(ret.in) = 2 /\ Len(ret.out) = 1

(* C7: a policy built from p.toConfig() has every field that was set in p, *)
(* with the same value; a field unset in p is not written by toConfig()    *)
(* and is at its default in the rebuilt policy.                            *)
C7_ConfigRoundTrip ==
    restored.made =>
        /\ \A key \in ConfKeys : (conf.c[key] # "") <=>
               CASE key = PROP_CELL_SIZE         -> policy.cellSize.set
                 [] key = PROP_CULLING_TECHNIQUE -> policy.cullingTechnique.set
                 [] key = PROP_SPATIALIZE_GROUPS -> policy.spatializeGroups.set
                 [] key = PROP_CLUSTER_CULLING   -> policy.clusterCulling.set
        /\ policy.cullingTechnique.set =>
               conf.c[PROP_CULLING_TECHNIQUE] =
                   IF policy.cullingTechnique.value = CULL_BY_CROPPING
                   THEN "crop" ELSE "centroid"
        /\ restored.p = policy

\* a policy with some fields set and some not has gone through the round trip
C7_Witness ==
    /\ restored.made
    /\ policy.cellSize.set /\ policy.cellSize.value = MaxCellSize
    /\ policy.cullingTechnique.set /\ policy.cullingTechnique.value = CULL_BY_CROPPING
    /\ ~policy.spatializeGroups.set
    /\ policy.clusterCulling.set /\ policy.clusterCulling.value
    /\ restored.p = policy

(* C8: when a cropping cull to a valid cell returns, every overlay-engine  *)
(* geometry the call created has been disposed: the cell rectangle, each   *)
(* imported feature geometry and each intersection result.                 *)
C8_AllEngineGeometriesDisposed ==
    (ret.op = "cull" /\ ValidIndex(ret.i) /\ Technique = CULL_BY_CROPPING /\ haveGeos)
        => ret.created \subseteq ret.destroyed

(* C9: in a cropping cull to a valid cell, a feature whose overlay throws  *)
(* or fails is removed, the call returns true, and every other feature is  *)
(* kept with the clipped geometry when the exported result is valid and    *)
(* removed otherwise, as if the failing feature were not in the list.      *)
C9_OverlayFailureIsLocal ==
    ( /\ ret.op = "cull" /\ ValidIndex(ret.i)
      /\ Technique = CULL_BY_CROPPING /\ haveGeos
      /\ \E f \in FeaturesOf(ret.in) : OverlayFails(f) )
    => /\ ret.success
       /\ \A f \in FeaturesOf(ret.in) : OverlayFails(f) => ~HasFeature(ret.out, f.fid)
       /\ ret.out = Clipped(ret.in, CellOf(ret.i))

\* an overlay that throws, ahead of a feature that is kept with a clipped geometry
C9_Witness ==
    /\ ret.op = "cull" /\ ValidIndex(ret.i) /\ Technique = CULL_BY_CROPPING /\ haveGeos
    /\ Len(ret.in) = 2 /\ ret.in[1].geom.geos = "throw"
    /\ ret.success /\ Len(ret.out) = 1 /\ ret.out[1].fid = 2
    /\ ret.out[1].geom # ret.in[2].geom

(* C10: under CULL_BY_CENTROID, a cull to a valid cell leaves exactly the  *)
(* features that have a geometry whose bounding-box center is within the   *)
(* cell's bounds, edges included, in their order and unchanged; a center   *)
(* on an edge shared by several cells is kept by each of them.             *)
C10_CentroidCull ==
    (gridder.made /\ Technique = CULL_BY_CENTROID) =>
        /\ (ret.op = "cull" /\ ValidIndex(ret.i)) =>
               ret.out = CentroidFilter(ret.in, CellOf(ret.i))
        /\ ret.op = "cullAll" =>
               \A i \in 1 .. ret.n : \A f \in FeaturesOf(ret.in) :
                   HasFeature(ret.outs[i], f.fid) <=> KeptByCentroid(f, CellOf(i - 1))

\* a feature with no geometry is dropped, and one centered on the corner
\* shared by four cells is kept by all four
C10_Witness ==
    /\ ret.op = "cullAll" /\ Technique = CULL_BY_CENTROID /\ ret.n = 4
    /\ \E f \in FeaturesOf(ret.in) : f.geom.null
    /\ \E f \in FeaturesOf(ret.in) : \A i \in 1 .. 4 : HasFeature(ret.outs[i], f.fid)

====
